---- MODULE Spec2Model ----
(***************************************************************************)
(* Model of server.py: an aiohttp application with one wildcard GET route  *)
(* whose handler, handle_static, maps the request path to a path relative  *)
(* to the working directory and answers with the file or with 404.         *)
(*                                                                         *)
(* Strings that the code inspects character by character (the request     *)
(* path, file_path) are sequences of one-character strings.  The           *)
(* filesystem the code looks at (os.path.exists, the open done by          *)
(* web.FileResponse) is a small directory tree that another actor may      *)
(* change at any moment.                                                   *)
(***************************************************************************)
EXTENDS Integers, Sequences, FiniteSets, TLC

VARIABLES
    app,    \* the web.Application: its route table and its dict-like state
    fs,     \* the filesystem: what each slot of the tree currently holds
    lib,    \* which aiohttp the process runs on (decides how a failed open ends)
    load,   \* the workload offered: which clients send which paths and methods
    req     \* per client: the request in flight and how far it got

vars == <<app, fs, lib, load, req>>

----------------------------------------------------------------------------
(* Bounds *)

\* Longest request path enumerated character by character.
MaxLen == 3

----------------------------------------------------------------------------
(* Strings *)

Chars == {"/", ".", "s"}

\* 'gpu-stats.html' (server.py line 15)
DefaultName == <<"g", "p", "u", "-", "s", "t", "a", "t", "s", ".", "h", "t", "m", "l">>

RECURSIVE SeqsOfLen(_)
SeqsOfLen(n) ==
    IF n = 0 THEN {<<>>}
    ELSE {Append(s, c) : s \in SeqsOfLen(n - 1), c \in Chars}

\* Request paths as the HTTP layer hands them over: they begin with '/'.
ShortPaths == {<<"/">> \o s : s \in UNION {SeqsOfLen(n) : n \in 0..(MaxLen - 1)}}

NamedPaths ==
    { <<"/">> \o DefaultName,
      <<"/", ".", ".", "/", "s">>,
      <<"/", ".", "/", "s">>,
      <<"/", "s", "/", ".", ".", "/", "s">>,
      <<"/", "/">> \o DefaultName \o <<"/">>,
      <<"/", ".", ".", "/", ".", ".", "/", "s">> }

AllPaths == ShortPaths \cup NamedPaths

\* str.lstrip('/')
RECURSIVE LStrip(_)
LStrip(s) ==
    IF s # <<>> /\ Head(s) = "/" THEN LStrip(Tail(s)) ELSE s

\* str.rstrip('/')
RECURSIVE RStrip(_)
RStrip(s) ==
    IF s # <<>> /\ s[Len(s)] = "/" THEN RStrip(SubSeq(s, 1, Len(s) - 1)) ELSE s

\* A strip that forgets the trailing separators.
StripLeadingOnly(s) == LStrip(s)

\* request.path.strip('/')
Strip(s) == RStrip(LStrip(s))

\* A handler that forgets the default filename for the empty path.
FilePathNoDefault(path) == Strip(path)

\* A handler that confines: a path with a '..' in it falls back to the default.
FilePathConfined(path) ==
    LET file_path == Strip(path)
    IN  IF file_path = <<>>
           \/ \E i \in 1..(Len(file_path) - 1) : file_path[i] = "." /\ file_path[i + 1] = "."
        THEN DefaultName ELSE file_path

\* Lines 13-15 of handle_static: the path handed to os.path.exists and to
\* web.FileResponse.
FilePath(path) ==
    LET file_path == Strip(path)
    IN  IF file_path = <<>> THEN DefaultName ELSE file_path

----------------------------------------------------------------------------
(* The filesystem seen from the working directory *)

\* The entries the model lets vary: the default document and a file "s" in the
\* working directory, and a file "s" in its parent directory.
Slots == {"doc", "in", "out"}

Absent     == [kind |-> "absent", bytes |-> ""]
Directory  == [kind |-> "dir", bytes |-> ""]
File(b)    == [kind |-> "file", bytes |-> b]
\* A regular file the process has no permission to open.
Locked     == [kind |-> "locked", bytes |-> ""]

Contents == {"b1", "b2"}

Entries == {Absent, Directory, Locked} \cup {File(b) : b \in Contents}

\* Components of a path between '/' separators ("a//b" has an empty one).
RECURSIVE Split(_, _)
Split(s, cur) ==
    IF s = <<>> THEN <<cur>>
    ELSE IF Head(s) = "/" THEN <<cur>> \o Split(Tail(s), <<>>)
    ELSE Split(Tail(s), Append(cur, Head(s)))

\* One step of path resolution by the operating system, from node `at` through
\* component `c`.  Nodes: the working directory "cwd", its parent "parent"
\* (the root: its own parent), a slot, or "noent" when resolution failed.
Walk(fsys, at, c) ==
    IF at = "noent" THEN "noent"
    ELSE IF at \in Slots /\ fsys[at].kind # "dir" THEN "noent"   \* ENOTDIR, "f/" included
    ELSE IF c = <<>> THEN at
    ELSE IF at = "cwd" THEN
        IF c = <<".">> THEN "cwd"
        ELSE IF c = <<".", ".">> THEN "parent"
        ELSE IF c = DefaultName /\ fsys["doc"] # Absent THEN "doc"
        ELSE IF c = <<"s">> /\ fsys["in"] # Absent THEN "in"
        ELSE "noent"
    ELSE IF at = "parent" THEN
        IF c = <<".">> \/ c = <<".", ".">> THEN "parent"
        ELSE IF c = <<"w">> THEN "cwd"
        ELSE IF c = <<"s">> /\ fsys["out"] # Absent THEN "out"
        ELSE "noent"
    ELSE \* a slot holding a directory, which is empty
        IF c = <<".">> THEN at
        ELSE IF c = <<".", ".">> THEN (IF at = "out" THEN "parent" ELSE "cwd")
        ELSE "noent"

RECURSIVE WalkAll(_, _, _)
WalkAll(fsys, at, cs) ==
    IF cs = <<>> THEN at ELSE WalkAll(fsys, Walk(fsys, at, Head(cs)), Tail(cs))

\* The node a relative path names, resolved from the working directory.
\* The empty path names nothing (ENOENT).
Node(fsys, file_path) ==
    IF file_path = <<>> THEN "noent"
    ELSE WalkAll(fsys, IF Head(file_path) = "/" THEN "parent" ELSE "cwd",
                 Split(file_path, <<>>))

\* What is found at a relative path.
Lookup(fsys, file_path) ==
    LET n == Node(fsys, file_path)
    IN  IF n = "noent" THEN Absent
        ELSE IF n \in {"cwd", "parent"} THEN Directory
        ELSE fsys[n]

\* os.path.isfile in the place of os.path.exists.
ExistsIsFile(fsys, file_path) == Lookup(fsys, file_path).kind \in {"file", "locked"}

\* os.path.exists(file_path), line 16: true of any kind of entry.
Exists(fsys, file_path) == Lookup(fsys, file_path) # Absent

----------------------------------------------------------------------------
(* The application and its router (lines 20-21) *)

\* The methods the processes of the workload may send.
Methods == {"GET", "HEAD", "POST"}

\* A route for every method (add_route('*', ...)) in the place of add_get.
add_route_any(routes, pattern, handler) ==
    Append(routes, [methods |-> Methods, pattern |-> pattern, handler |-> handler])

\* router.add_get(pattern, handler): a route for GET, which also answers HEAD
\* (add_get's allow_head default).  The pattern '/{tail:.*}' is kept as given.
add_get(routes, pattern, handler) ==
    Append(routes, [methods |-> {"GET", "HEAD"}, pattern |-> pattern, handler |-> handler])

\* '/{tail:.*}' matches a '/' followed by anything.
Matches(pattern, path) ==
    pattern = "/{tail:.*}" /\ path # <<>> /\ Head(path) = "/"

\* web.Application() followed by the add_get of line 21.
NewApp == [routes |-> add_get(<<>>, "/{tail:.*}", "handle_static"), state |-> <<>>]

\* web.Response(status=...): no body.
Response(status) == [status |-> status, body |-> ""]

\* No response at all: the connection is closed before a status line is sent.
Dropped == [status |-> 0, body |-> ""]

\* The router's answer for a request: the handler of the first route whose
\* pattern and method both match; 405 when only the pattern of some route
\* matches; 404 when nothing matches.
Dispatch(routes, method, path) ==
    LET full == {i \in DOMAIN routes :
                    Matches(routes[i].pattern, path) /\ method \in routes[i].methods}
        part == {i \in DOMAIN routes : Matches(routes[i].pattern, path)}
    IN  IF full # {} THEN [handler |-> routes[CHOOSE i \in full : \A j \in full : i <= j].handler,
                           resp |-> Dropped]
        ELSE IF part # {} THEN [handler |-> "", resp |-> Response(405)]
        ELSE [handler |-> "", resp |-> Response(404)]

----------------------------------------------------------------------------
(* web.FileResponse(file_path), line 17, once the server prepares it *)

Libs == {"legacy", "modern"}

\* What the client gets for a FileResponse whose path currently holds `entry`.
\* A readable regular file is sent with status 200 (without its bytes on HEAD).
\* Otherwise the open or stat fails inside the library, after the handler has
\* returned: the modern library answers 403 (no permission, not a regular
\* file) or 404 (gone); the legacy one lets the exception end the connection.
SendFile(version, method, entry) ==
    IF entry.kind = "file"
    THEN [status |-> 200, body |-> IF method = "HEAD" THEN "" ELSE entry.bytes]
    ELSE IF version = "legacy" THEN Dropped
    ELSE IF entry.kind = "absent" THEN Response(404)
    ELSE Response(403)

----------------------------------------------------------------------------
(* Requests *)

AllClients == {1, 2}

\* One client trying every path and method; two clients sending a few paths
\* at the same time.
Wide       == [clients |-> {1}, paths |-> AllPaths, methods |-> Methods]
Concurrent == [clients |-> AllClients,
               paths   |-> {<<"/">>, <<"/", "s">>, <<"/">> \o DefaultName},
               methods |-> {"GET"}]

Idle ==
    [pc |-> "idle", method |-> "", path |-> <<>>, file_path |-> <<>>,
     via |-> "", stale |-> FALSE, reads |-> 0, resp |-> Dropped]

Init ==
    /\ app = NewApp
    /\ fs \in [Slots -> Entries]
    /\ lib \in Libs
    /\ load \in {Wide, Concurrent}
    /\ req = [c \in AllClients |-> Idle]

\* A request arrives and the router picks its handler, or answers itself.
Receive(c, method, path) ==
    /\ req[c].pc = "idle"
    /\ LET d == Dispatch(app.routes, method, path)
       IN  req' = [req EXCEPT ![c] =
                IF d.handler # ""
                THEN [Idle EXCEPT !.pc = "routed", !.method = method, !.path = path]
                ELSE [Idle EXCEPT !.pc = "done", !.method = method, !.path = path,
                                  !.via = "router", !.resp = d.resp]]
    /\ UNCHANGED <<app, fs, lib, load>>

\* A handler that remembers the last path it found and serves that one when
\* the requested path does not exist.
handle_static_fallback(c) ==
    /\ req[c].pc = "routed"
    /\ LET file_path == FilePath(req[c].path)
       IN  IF Exists(fs, file_path)
           THEN /\ req' = [req EXCEPT ![c] =
                        [@ EXCEPT !.pc = "sending", !.file_path = file_path, !.via = "file"]]
                /\ app' = [app EXCEPT !.state = file_path]
           ELSE IF app.state # <<>> /\ Exists(fs, app.state)
           THEN /\ req' = [req EXCEPT ![c] =
                        [@ EXCEPT !.pc = "sending", !.file_path = app.state, !.via = "file"]]
                /\ app' = app
           ELSE /\ req' = [req EXCEPT ![c] =
                        [@ EXCEPT !.pc = "done", !.file_path = file_path, !.via = "handler",
                                  !.resp = Response(404)]]
                /\ app' = app
    /\ UNCHANGED <<fs, lib, load>>

\* A handler that keeps a mark of having been hit in the application's state.
handle_static_counting(c) ==
    /\ req[c].pc = "routed"
    /\ LET file_path == FilePath(req[c].path)
       IN  req' = [req EXCEPT ![c] =
                IF Exists(fs, file_path)
                THEN [@ EXCEPT !.pc = "sending", !.file_path = file_path, !.via = "file"]
                ELSE [@ EXCEPT !.pc = "done", !.file_path = file_path, !.via = "handler",
                               !.resp = Response(404)]]
    /\ app' = [app EXCEPT !.state = <<"hit">>]
    /\ UNCHANGED <<fs, lib, load>>

\* A handler that takes the path from a variable shared by all requests: it
\* sees the path of the latest request routed, not its own.
handle_static_shared(c) ==
    /\ req[c].pc = "routed"
    /\ LET latest == CHOOSE d \in AllClients :
                        /\ req[d].pc = "routed"
                        /\ \A e \in AllClients : req[e].pc = "routed" => e <= d
           file_path == FilePath(req[latest].path)
       IN  req' = [req EXCEPT ![c] =
                IF Exists(fs, file_path)
                THEN [@ EXCEPT !.pc = "sending", !.file_path = file_path, !.via = "file"]
                ELSE [@ EXCEPT !.pc = "done", !.file_path = file_path, !.via = "handler",
                               !.resp = Response(404)]]
    /\ UNCHANGED <<app, fs, lib, load>>

\* async def handle_static(request), lines 12-18.  It has no await: it runs
\* in one piece.  It returns either a FileResponse for file_path, which the
\* server prepares afterwards, or the finished 404.
handle_static(c) ==
    /\ req[c].pc = "routed"
    /\ LET file_path == FilePath(req[c].path)
       IN  req' = [req EXCEPT ![c] =
                IF Exists(fs, file_path)
                THEN [@ EXCEPT !.pc = "sending", !.file_path = file_path, !.via = "file"]
                ELSE [@ EXCEPT !.pc = "done", !.file_path = file_path, !.via = "handler",
                               !.resp = Response(404)]]
    /\ UNCHANGED <<app, fs, lib, load>>

\* The server prepares the FileResponse the handler returned: the file is
\* opened now, which is later than the existence check.
PrepareFile(c) ==
    /\ req[c].pc = "sending"
    /\ LET entry == Lookup(fs, req[c].file_path)
       IN  req' = [req EXCEPT ![c] =
                [@ EXCEPT !.pc = "done",
                          !.reads = IF entry.kind = "file" THEN @ + 1 ELSE @,
                          !.resp = SendFile(lib, req[c].method, entry)]]
    /\ UNCHANGED <<app, fs, lib, load>>

\* The exchange is over; the client may send its next request.
Complete(c) ==
    /\ req[c].pc = "done"
    /\ req' = [req EXCEPT ![c] = Idle]
    /\ UNCHANGED <<app, fs, lib, load>>

\* Another process creates, removes, replaces or locks an entry.  Every
\* request that has looked at the filesystem by then is marked stale: the
\* filesystem is no longer the one it was answered from.
FsChange(slot, entry) ==
    /\ fs[slot] # entry
    /\ fs' = [fs EXCEPT ![slot] = entry]
    /\ req' = [c \in AllClients |->
                IF req[c].via \in {"file", "handler"}
                THEN [req[c] EXCEPT !.stale = TRUE] ELSE req[c]]
    /\ UNCHANGED <<app, lib, load>>

Next ==
    \/ \E c \in load.clients, m \in load.methods, p \in load.paths : Receive(c, m, p)
    \/ \E c \in load.clients : handle_static(c)
    \/ \E c \in load.clients : PrepareFile(c)
    \/ \E c \in load.clients : Complete(c)
    \/ \E slot \in Slots, entry \in Entries : FsChange(slot, entry)

Spec == Init /\ [][Next]_vars

----------------------------------------------------------------------------
(* Vocabulary of the properties *)

\* The resolved path as the specification words it: the request path without
\* its leading and trailing '/' characters, or the default filename when
\* nothing is left.
Resolved(path) ==
    LET keep == {i \in 1..Len(path) : path[i] # "/"}
        lo   == CHOOSE i \in keep : \A j \in keep : i <= j
        hi   == CHOOSE i \in keep : \A j \in keep : j <= i
    IN  IF keep = {} THEN DefaultName ELSE SubSeq(path, lo, hi)

OnlySlashes(path) == \A i \in 1..Len(path) : path[i] = "/"

\* The path has a parent-directory segment.
HasDotDot(path) ==
    LET cs == Split(path, <<>>) IN \E i \in 1..Len(cs) : cs[i] = <<".", ".">>

\* Nodes that lie outside the working directory.
Outside == {"parent", "out"}

\* The request of client c reached handle_static.
Handled(c) == req[c].via \in {"handler", "file"}

\* The request of client c is answered, from the filesystem as it is now.
Settled(c) == req[c].pc = "done" /\ ~req[c].stale

----------------------------------------------------------------------------
(* C1 *)

\* C1 as claimed: whenever the resolved path names an existing file, readable
\* or not, a request answered from that filesystem gets 200 and the file's bytes.
C1_AnyExistingFileServed ==
    \A c \in AllClients :
        LET e == Lookup(fs, Resolved(req[c].path))
        IN  (Settled(c) /\ Handled(c) /\ req[c].method = "GET"
                /\ e.kind \in {"file", "locked"})
            => (req[c].resp.status = 200 /\ req[c].resp.body = e.bytes)

\* C1 as amended: a GET request whose resolved path names a regular file the
\* process can read, the filesystem not being changed while the request is
\* handled, is answered 200 with exactly the bytes of that file.
C1_ReadableFileServed ==
    \A c \in AllClients :
        LET e == Lookup(fs, Resolved(req[c].path))
        IN  (Handled(c) /\ ~req[c].stale /\ req[c].method = "GET" /\ e.kind = "file")
            => /\ req[c].file_path = Resolved(req[c].path)
               /\ req[c].via = "file"
               /\ req[c].pc = "done" => req[c].resp = [status |-> 200, body |-> e.bytes]

\* A GET whose path needed stripping on both sides was answered 200 with the bytes.
C1_Witness ==
    \E c \in AllClients :
        /\ Settled(c) /\ req[c].method = "GET"
        /\ req[c].path = <<"/", "s", "/">>
        /\ fs["in"] = File("b2")
        /\ req[c].resp = [status |-> 200, body |-> "b2"]

----------------------------------------------------------------------------
(* C2 *)

\* C2: a request whose resolved path names no existing file (nothing, or
\* something that is not a file) is answered 404 with an empty body.
C2_NoFileMeans404 ==
    \A c \in AllClients :
        (Settled(c) /\ Handled(c)
            /\ Lookup(fs, Resolved(req[c].path)).kind \notin {"file", "locked"})
        => req[c].resp = Response(404)

----------------------------------------------------------------------------
(* C3 *)

RootLike(path) == OnlySlashes(path) \/ path = <<"/">> \o DefaultName

\* C3 as claimed: the root path is answered like '/gpu-stats.html', and that
\* answer is 200 whenever the default document exists.
C3_RootServedWheneverPresent ==
    \A c \in AllClients :
        (Settled(c) /\ Handled(c) /\ OnlySlashes(req[c].path) /\ fs["doc"].kind \in {"file", "locked"})
        => req[c].resp.status = 200

\* C3 as amended: a path made of '/' characters only is answered exactly like
\* '/gpu-stats.html' (same method, same filesystem): 200 with the default
\* document's bytes when it is a regular file the process can read, 404 with
\* an empty body when it does not exist.
C3_RootIsDefault ==
    /\ \A c \in AllClients :
        (Settled(c) /\ Handled(c) /\ RootLike(req[c].path))
        => /\ req[c].file_path = DefaultName
           /\ fs["doc"].kind = "file" =>
                (/\ req[c].resp.status = 200
                 /\ req[c].method = "GET" => req[c].resp.body = fs["doc"].bytes)
           /\ fs["doc"] = Absent => req[c].resp = Response(404)
    /\ \A c, d \in AllClients :
        (Settled(c) /\ Settled(d) /\ req[c].method = req[d].method
            /\ OnlySlashes(req[c].path) /\ req[d].path = <<"/">> \o DefaultName)
        => req[c].resp = req[d].resp

\* '/' and '/gpu-stats.html' were both answered with the document's bytes.
C3_Witness ==
    \E c, d \in AllClients :
        /\ Settled(c) /\ Settled(d)
        /\ req[c].path = <<"/">> /\ req[d].path = <<"/">> \o DefaultName
        /\ req[c].resp = [status |-> 200, body |-> "b1"]
        /\ req[d].resp = req[c].resp

----------------------------------------------------------------------------
(* C4 *)

\* C4: a request whose file passed the existence check but then could not be
\* read (no permission, or removed in between) ends with a server-error status.
C4_ReadFailureIsServerError ==
    \A c \in AllClients :
        (req[c].pc = "done" /\ req[c].via = "file" /\ req[c].resp.status # 200
            /\ Lookup(fs, req[c].file_path).kind # "dir")
        => req[c].resp.status \in 500..599

----------------------------------------------------------------------------
(* C5 *)

\* C5 as claimed: a path with '..' segments that names an existing file
\* outside the working directory, readable or not, is answered 200 with it.
C5_AnyOutsideFileServed ==
    \A c \in AllClients :
        LET f == Resolved(req[c].path)
        IN  (Settled(c) /\ Handled(c) /\ req[c].method = "GET" /\ HasDotDot(f)
                /\ Node(fs, f) \in Outside /\ Lookup(fs, f).kind \in {"file", "locked"})
            => (req[c].resp.status = 200 /\ req[c].resp.body = Lookup(fs, f).bytes)

\* C5 as amended: no confinement.  For a path with '..' segments the handler
\* uses the request path with only its leading and trailing '/' removed, the
\* '..' kept; when that names, outside the working directory, a regular file
\* the process can read, a GET is answered 200 with that file's bytes.
C5_NoConfinement ==
    \A c \in AllClients :
        LET f == Resolved(req[c].path)
        IN  (Handled(c) /\ ~req[c].stale /\ HasDotDot(f))
            => /\ req[c].file_path = f
               /\ (req[c].method = "GET" /\ Node(fs, f) \in Outside /\ Lookup(fs, f).kind = "file")
                    => /\ req[c].via = "file"
                       /\ req[c].pc = "done" =>
                            req[c].resp = [status |-> 200, body |-> Lookup(fs, f).bytes]

\* '/../s' was answered with the file of the parent directory.
C5_Witness ==
    \E c \in AllClients :
        /\ Settled(c) /\ req[c].method = "GET"
        /\ req[c].path = <<"/", ".", ".", "/", "s">>
        /\ fs["out"] = File("b2") /\ fs["in"] = Absent
        /\ req[c].resp = [status |-> 200, body |-> "b2"]

----------------------------------------------------------------------------
(* C6 *)

\* C6: two identical requests (same method, same path) answered from the same
\* filesystem contents have the same status and the same body, whatever was
\* handled in between.
C6_Idempotent ==
    \A c, d \in AllClients :
        (Settled(c) /\ Settled(d)
            /\ req[c].method = req[d].method /\ req[c].path = req[d].path)
        => req[c].resp = req[d].resp

\* Two clients asked for '/s' and both got the file.
C6_Witness ==
    \E c, d \in AllClients :
        /\ c # d /\ Settled(c) /\ Settled(d)
        /\ req[c].path = <<"/", "s">> /\ req[d].path = <<"/", "s">>
        /\ req[c].resp = [status |-> 200, body |-> "b1"]
        /\ req[d].resp = req[c].resp

----------------------------------------------------------------------------
(* C7 *)

\* C7: a step that advances a request changes neither the filesystem nor the
\* application (route table, state), and a request reads at most one file.
C7_Frame ==
    [][(\E c \in AllClients : req'[c].pc # req[c].pc)
        => /\ fs' = fs
           /\ app' = app
           /\ \A c \in AllClients : req'[c].reads <= 1]_vars

\* A request was answered from a file it read, the application as constructed.
C7_Witness ==
    \E c \in AllClients :
        req[c].pc = "done" /\ req[c].reads = 1 /\ req[c].resp.status = 200 /\ app = NewApp

----------------------------------------------------------------------------
(* C8 *)

\* The answer to a request handled alone over filesystem fsys.
Alone(fsys, method, path) ==
    LET d == Dispatch(NewApp.routes, method, path)
        f == Resolved(path)
    IN  IF d.handler = "" THEN d.resp
        ELSE IF Lookup(fsys, f) = Absent THEN Response(404)
        ELSE SendFile(lib, method, Lookup(fsys, f))

\* C8: under every interleaving, a request answered over an unchanged
\* filesystem gets the answer it would get if handled alone.
C8_Independent ==
    \A c \in AllClients :
        Settled(c) => req[c].resp = Alone(fs, req[c].method, req[c].path)

\* Two requests in flight together, for different paths, got different answers.
C8_Witness ==
    \E c, d \in AllClients :
        /\ Settled(c) /\ Settled(d)
        /\ req[c].path = <<"/">> /\ req[c].resp = [status |-> 200, body |-> "b2"]
        /\ req[d].path = <<"/", "s">> /\ req[d].resp = Response(404)

----------------------------------------------------------------------------
(* C9 *)

\* C9 as claimed: every request, whatever its method, reaches handle_static.
C9_EveryMethodHandled ==
    \A c \in AllClients : req[c].pc = "done" => Handled(c)

\* C9 as amended: every GET or HEAD request, whatever its path, is dispatched
\* to handle_static; a request with any other method is answered 405 by the
\* router and never reaches the handler.
C9_GetAndHeadHandled ==
    \A c \in AllClients :
        req[c].pc # "idle"
        => IF req[c].method \in {"GET", "HEAD"}
           THEN req[c].via # "router" /\ (req[c].pc = "done" => Handled(c))
           ELSE req[c].pc = "done" /\ req[c].via = "router" /\ req[c].resp = Response(405)

\* A POST was turned away by the router.
C9_Witness ==
    \E c \in AllClients :
        req[c].pc = "done" /\ req[c].method = "POST" /\ req[c].resp = Response(405)

----------------------------------------------------------------------------
(* C10 *)

\* C10: handle_static itself returns the 404 exactly when nothing at all
\* exists at the resolved path; a directory passes the check and its path is
\* handed to the file responder.
C10_Handler404IffNothing ==
    \A c \in AllClients :
        LET e == Lookup(fs, Resolved(req[c].path))
        IN  (Handled(c) /\ ~req[c].stale)
            => /\ (req[c].via = "handler") <=> (e = Absent)
               /\ req[c].via = "handler" => (req[c].pc = "done" /\ req[c].resp = Response(404))
               /\ e.kind = "dir" => (req[c].via = "file" /\ req[c].file_path = Resolved(req[c].path))

\* A directory was handed to the file responder.
C10_Witness ==
    \E c \in AllClients :
        /\ req[c].pc = "sending" /\ ~req[c].stale
        /\ req[c].path = <<"/", "s">> /\ fs["in"] = Directory

====
